---- MODULE Spec2Model ----
(***************************************************************************)
(* A model of src/main.py: the conversion of Pascal-VOC style XML          *)
(* annotations into YOLO text files, the class vocabulary, the data.yaml   *)
(* manifest and the hand-off to training.                                  *)
(*                                                                         *)
(* Conventions.  A Python value that may be None is a sequence of length   *)
(* 0 (None) or 1 (the value).  A string is the sequence of its code        *)
(* points.  A float that results from the divisions of lines 86-89 is the  *)
(* exact quotient, kept as a fraction in lowest terms.                     *)
(***************************************************************************)
EXTENDS Integers, Sequences, FiniteSets, TLC

VARIABLES
    base_exists,    \* base_data_dir.exists()                     (line 181)
    subset_exists,  \* subset_dir.exists(), per subset            (lines 194, 212)
    xml,            \* the *.xml files on disk: file id -> [dir, content]
    txt,            \* the sibling .txt file of each xml file     (lines 94-97)
    data_yaml,      \* the file data.yaml                         (lines 118-119)
    classes_set,    \* main's classes_set                         (line 189)
    classes,        \* main's classes                             (line 200)
    classes_dict,   \* main's classes_dict                        (line 201)
    pc,             \* where the program is
    subset,         \* index into subsets of the running for loop (lines 192, 210)
    xml_files,      \* files the running for loop has yet to visit (lines 23, 58)
    error           \* the uncaught exception that ended the run, or "none"

vars == <<base_exists, subset_exists, xml, txt, data_yaml, classes_set,
          classes, classes_dict, pc, subset, xml_files, error>>

\* ------------------------------------------------------------------ bounds

MaxFiles == 2      \* xml files in the data set (specification Spec)
MaxLen == 2        \* length of the text of a <name> element (SpecLabels)
MaxObjs == 2       \* <object> elements in one file (SpecConvert)
MaxCoord == 2      \* pixel coordinates and image sizes 0..MaxCoord (SpecGeometry)

\* ------------------------------------------------------------- Python values

None == <<>>
Some(v) == <<v>>
IsNone(o) == o = <<>>
Val(o) == o[1]

subsets == <<"train", "val", "test">>
SubsetNames == {subsets[i] : i \in 1..Len(subsets)}

\* ------------------------------------------------------------------- strings

\* The code points str.strip() removes: those for which str.isspace() holds.
Whitespace ==
    {9, 10, 11, 12, 13, 28, 29, 30, 31, 32, 133, 160, 5760,
     8192, 8193, 8194, 8195, 8196, 8197, 8198, 8199, 8200, 8201, 8202,
     8232, 8233, 8239, 8287, 12288}

RECURSIVE lstrip(_)
lstrip(s) ==
    IF s = <<>> THEN <<>>
    ELSE IF Head(s) \in Whitespace THEN lstrip(Tail(s))
    ELSE s

RECURSIVE rstrip(_)
rstrip(s) ==
    IF s = <<>> THEN <<>>
    ELSE IF s[Len(s)] \in Whitespace THEN rstrip(SubSeq(s, 1, Len(s) - 1))
    ELSE s

strip(s) == rstrip(lstrip(s))

\* str.lower() on one code point: <<first, last, step, delta>>
\* says that first, first + step, ..., last each map to themselves + delta
\* (the Unicode 14.0.0 simple lowercase mappings of CPython 3.11).
LowerRuns ==
    {
      <<65, 90, 1, 32>>, <<192, 214, 1, 32>>, <<216, 222, 1, 32>>, <<256, 302, 2, 1>>, <<306, 310, 2, 1>>,
      <<313, 327, 2, 1>>, <<330, 374, 2, 1>>, <<376, 376, 1, -121>>, <<377, 381, 2, 1>>, <<385, 385, 1, 210>>,
      <<386, 388, 2, 1>>, <<390, 390, 1, 206>>, <<391, 391, 1, 1>>, <<393, 394, 1, 205>>, <<395, 395, 1, 1>>,
      <<398, 398, 1, 79>>, <<399, 399, 1, 202>>, <<400, 400, 1, 203>>, <<401, 401, 1, 1>>, <<403, 403, 1, 205>>,
      <<404, 404, 1, 207>>, <<406, 406, 1, 211>>, <<407, 407, 1, 209>>, <<408, 408, 1, 1>>, <<412, 412, 1, 211>>,
      <<413, 413, 1, 213>>, <<415, 415, 1, 214>>, <<416, 420, 2, 1>>, <<422, 422, 1, 218>>, <<423, 423, 1, 1>>,
      <<425, 425, 1, 218>>, <<428, 428, 1, 1>>, <<430, 430, 1, 218>>, <<431, 431, 1, 1>>, <<433, 434, 1, 217>>,
      <<435, 437, 2, 1>>, <<439, 439, 1, 219>>, <<440, 440, 1, 1>>, <<444, 444, 1, 1>>, <<452, 452, 1, 2>>,
      <<453, 453, 1, 1>>, <<455, 455, 1, 2>>, <<456, 456, 1, 1>>, <<458, 458, 1, 2>>, <<459, 475, 2, 1>>,
      <<478, 494, 2, 1>>, <<497, 497, 1, 2>>, <<498, 500, 2, 1>>, <<502, 502, 1, -97>>, <<503, 503, 1, -56>>,
      <<504, 542, 2, 1>>, <<544, 544, 1, -130>>, <<546, 562, 2, 1>>, <<570, 570, 1, 10795>>, <<571, 571, 1, 1>>,
      <<573, 573, 1, -163>>, <<574, 574, 1, 10792>>, <<577, 577, 1, 1>>, <<579, 579, 1, -195>>, <<580, 580, 1, 69>>,
      <<581, 581, 1, 71>>, <<582, 590, 2, 1>>, <<880, 882, 2, 1>>, <<886, 886, 1, 1>>, <<895, 895, 1, 116>>,
      <<902, 902, 1, 38>>, <<904, 906, 1, 37>>, <<908, 908, 1, 64>>, <<910, 911, 1, 63>>, <<913, 929, 1, 32>>,
      <<931, 939, 1, 32>>, <<975, 975, 1, 8>>, <<984, 1006, 2, 1>>, <<1012, 1012, 1, -60>>, <<1015, 1015, 1, 1>>,
      <<1017, 1017, 1, -7>>, <<1018, 1018, 1, 1>>, <<1021, 1023, 1, -130>>, <<1024, 1039, 1, 80>>, <<1040, 1071, 1, 32>>,
      <<1120, 1152, 2, 1>>, <<1162, 1214, 2, 1>>, <<1216, 1216, 1, 15>>, <<1217, 1229, 2, 1>>, <<1232, 1326, 2, 1>>,
      <<1329, 1366, 1, 48>>, <<4256, 4293, 1, 7264>>, <<4295, 4295, 1, 7264>>, <<4301, 4301, 1, 7264>>, <<5024, 5103, 1, 38864>>,
      <<5104, 5109, 1, 8>>, <<7312, 7354, 1, -3008>>, <<7357, 7359, 1, -3008>>, <<7680, 7828, 2, 1>>, <<7838, 7838, 1, -7615>>,
      <<7840, 7934, 2, 1>>, <<7944, 7951, 1, -8>>, <<7960, 7965, 1, -8>>, <<7976, 7983, 1, -8>>, <<7992, 7999, 1, -8>>,
      <<8008, 8013, 1, -8>>, <<8025, 8031, 2, -8>>, <<8040, 8047, 1, -8>>, <<8072, 8079, 1, -8>>, <<8088, 8095, 1, -8>>,
      <<8104, 8111, 1, -8>>, <<8120, 8121, 1, -8>>, <<8122, 8123, 1, -74>>, <<8124, 8124, 1, -9>>, <<8136, 8139, 1, -86>>,
      <<8140, 8140, 1, -9>>, <<8152, 8153, 1, -8>>, <<8154, 8155, 1, -100>>, <<8168, 8169, 1, -8>>, <<8170, 8171, 1, -112>>,
      <<8172, 8172, 1, -7>>, <<8184, 8185, 1, -128>>, <<8186, 8187, 1, -126>>, <<8188, 8188, 1, -9>>, <<8486, 8486, 1, -7517>>,
      <<8490, 8490, 1, -8383>>, <<8491, 8491, 1, -8262>>, <<8498, 8498, 1, 28>>, <<8544, 8559, 1, 16>>, <<8579, 8579, 1, 1>>,
      <<9398, 9423, 1, 26>>, <<11264, 11311, 1, 48>>, <<11360, 11360, 1, 1>>, <<11362, 11362, 1, -10743>>, <<11363, 11363, 1, -3814>>,
      <<11364, 11364, 1, -10727>>, <<11367, 11371, 2, 1>>, <<11373, 11373, 1, -10780>>, <<11374, 11374, 1, -10749>>, <<11375, 11375, 1, -10783>>,
      <<11376, 11376, 1, -10782>>, <<11378, 11378, 1, 1>>, <<11381, 11381, 1, 1>>, <<11390, 11391, 1, -10815>>, <<11392, 11490, 2, 1>>,
      <<11499, 11501, 2, 1>>, <<11506, 11506, 1, 1>>, <<42560, 42604, 2, 1>>, <<42624, 42650, 2, 1>>, <<42786, 42798, 2, 1>>,
      <<42802, 42862, 2, 1>>, <<42873, 42875, 2, 1>>, <<42877, 42877, 1, -35332>>, <<42878, 42886, 2, 1>>, <<42891, 42891, 1, 1>>,
      <<42893, 42893, 1, -42280>>, <<42896, 42898, 2, 1>>, <<42902, 42920, 2, 1>>, <<42922, 42922, 1, -42308>>, <<42923, 42923, 1, -42319>>,
      <<42924, 42924, 1, -42315>>, <<42925, 42925, 1, -42305>>, <<42926, 42926, 1, -42308>>, <<42928, 42928, 1, -42258>>, <<42929, 42929, 1, -42282>>,
      <<42930, 42930, 1, -42261>>, <<42931, 42931, 1, 928>>, <<42932, 42946, 2, 1>>, <<42948, 42948, 1, -48>>, <<42949, 42949, 1, -42307>>,
      <<42950, 42950, 1, -35384>>, <<42951, 42953, 2, 1>>, <<42960, 42960, 1, 1>>, <<42966, 42968, 2, 1>>, <<42997, 42997, 1, 1>>,
      <<65313, 65338, 1, 32>>, <<66560, 66599, 1, 40>>, <<66736, 66771, 1, 40>>, <<66928, 66938, 1, 39>>, <<66940, 66954, 1, 39>>,
      <<66956, 66962, 1, 39>>, <<66964, 66965, 1, 39>>, <<68736, 68786, 1, 64>>, <<71840, 71871, 1, 32>>, <<93760, 93791, 1, 32>>,
      <<125184, 125217, 1, 34>> }

\* The code points with the Cased property, as <<first, last>> ranges.
CasedRanges ==
    {
      <<65, 90>>, <<97, 122>>, <<170, 170>>, <<181, 181>>, <<186, 186>>, <<192, 214>>,
      <<216, 246>>, <<248, 442>>, <<444, 447>>, <<452, 659>>, <<661, 696>>, <<704, 705>>,
      <<736, 740>>, <<837, 837>>, <<880, 883>>, <<886, 887>>, <<890, 893>>, <<895, 895>>,
      <<902, 902>>, <<904, 906>>, <<908, 908>>, <<910, 929>>, <<931, 1013>>, <<1015, 1153>>,
      <<1162, 1327>>, <<1329, 1366>>, <<1376, 1416>>, <<4256, 4293>>, <<4295, 4295>>, <<4301, 4301>>,
      <<4304, 4346>>, <<4349, 4351>>, <<5024, 5109>>, <<5112, 5117>>, <<7296, 7304>>, <<7312, 7354>>,
      <<7357, 7359>>, <<7424, 7615>>, <<7680, 7957>>, <<7960, 7965>>, <<7968, 8005>>, <<8008, 8013>>,
      <<8016, 8023>>, <<8025, 8025>>, <<8027, 8027>>, <<8029, 8029>>, <<8031, 8061>>, <<8064, 8116>>,
      <<8118, 8124>>, <<8126, 8126>>, <<8130, 8132>>, <<8134, 8140>>, <<8144, 8147>>, <<8150, 8155>>,
      <<8160, 8172>>, <<8178, 8180>>, <<8182, 8188>>, <<8305, 8305>>, <<8319, 8319>>, <<8336, 8348>>,
      <<8450, 8450>>, <<8455, 8455>>, <<8458, 8467>>, <<8469, 8469>>, <<8473, 8477>>, <<8484, 8484>>,
      <<8486, 8486>>, <<8488, 8488>>, <<8490, 8493>>, <<8495, 8500>>, <<8505, 8505>>, <<8508, 8511>>,
      <<8517, 8521>>, <<8526, 8526>>, <<8544, 8575>>, <<8579, 8580>>, <<9398, 9449>>, <<11264, 11492>>,
      <<11499, 11502>>, <<11506, 11507>>, <<11520, 11557>>, <<11559, 11559>>, <<11565, 11565>>, <<42560, 42605>>,
      <<42624, 42653>>, <<42786, 42887>>, <<42891, 42894>>, <<42896, 42954>>, <<42960, 42961>>, <<42963, 42963>>,
      <<42965, 42969>>, <<42997, 42998>>, <<43000, 43002>>, <<43824, 43866>>, <<43868, 43880>>, <<43888, 43967>>,
      <<64256, 64262>>, <<64275, 64279>>, <<65313, 65338>>, <<65345, 65370>>, <<66560, 66639>>, <<66736, 66771>>,
      <<66776, 66811>>, <<66928, 66938>>, <<66940, 66954>>, <<66956, 66962>>, <<66964, 66965>>, <<66967, 66977>>,
      <<66979, 66993>>, <<66995, 67001>>, <<67003, 67004>>, <<67456, 67456>>, <<67459, 67461>>, <<67463, 67504>>,
      <<67506, 67514>>, <<68736, 68786>>, <<68800, 68850>>, <<71840, 71903>>, <<93760, 93823>>, <<119808, 119892>>,
      <<119894, 119964>>, <<119966, 119967>>, <<119970, 119970>>, <<119973, 119974>>, <<119977, 119980>>, <<119982, 119993>>,
      <<119995, 119995>>, <<119997, 120003>>, <<120005, 120069>>, <<120071, 120074>>, <<120077, 120084>>, <<120086, 120092>>,
      <<120094, 120121>>, <<120123, 120126>>, <<120128, 120132>>, <<120134, 120134>>, <<120138, 120144>>, <<120146, 120485>>,
      <<120488, 120512>>, <<120514, 120538>>, <<120540, 120570>>, <<120572, 120596>>, <<120598, 120628>>, <<120630, 120654>>,
      <<120656, 120686>>, <<120688, 120712>>, <<120714, 120744>>, <<120746, 120770>>, <<120772, 120779>>, <<122624, 122633>>,
      <<122635, 122654>>, <<125184, 125251>>, <<127280, 127305>>, <<127312, 127337>>, <<127344, 127369>> }

\* The code points with the Case_Ignorable property, as <<first, last>> ranges.
CaseIgnorableRanges ==
    {
      <<39, 39>>, <<46, 46>>, <<58, 58>>, <<94, 94>>, <<96, 96>>, <<168, 168>>,
      <<173, 173>>, <<175, 175>>, <<180, 180>>, <<183, 184>>, <<688, 879>>, <<884, 885>>,
      <<890, 890>>, <<900, 901>>, <<903, 903>>, <<1155, 1161>>, <<1369, 1369>>, <<1375, 1375>>,
      <<1425, 1469>>, <<1471, 1471>>, <<1473, 1474>>, <<1476, 1477>>, <<1479, 1479>>, <<1524, 1524>>,
      <<1536, 1541>>, <<1552, 1562>>, <<1564, 1564>>, <<1600, 1600>>, <<1611, 1631>>, <<1648, 1648>>,
      <<1750, 1757>>, <<1759, 1768>>, <<1770, 1773>>, <<1807, 1807>>, <<1809, 1809>>, <<1840, 1866>>,
      <<1958, 1968>>, <<2027, 2037>>, <<2042, 2042>>, <<2045, 2045>>, <<2070, 2093>>, <<2137, 2139>>,
      <<2184, 2184>>, <<2192, 2193>>, <<2200, 2207>>, <<2249, 2306>>, <<2362, 2362>>, <<2364, 2364>>,
      <<2369, 2376>>, <<2381, 2381>>, <<2385, 2391>>, <<2402, 2403>>, <<2417, 2417>>, <<2433, 2433>>,
      <<2492, 2492>>, <<2497, 2500>>, <<2509, 2509>>, <<2530, 2531>>, <<2558, 2558>>, <<2561, 2562>>,
      <<2620, 2620>>, <<2625, 2626>>, <<2631, 2632>>, <<2635, 2637>>, <<2641, 2641>>, <<2672, 2673>>,
      <<2677, 2677>>, <<2689, 2690>>, <<2748, 2748>>, <<2753, 2757>>, <<2759, 2760>>, <<2765, 2765>>,
      <<2786, 2787>>, <<2810, 2815>>, <<2817, 2817>>, <<2876, 2876>>, <<2879, 2879>>, <<2881, 2884>>,
      <<2893, 2893>>, <<2901, 2902>>, <<2914, 2915>>, <<2946, 2946>>, <<3008, 3008>>, <<3021, 3021>>,
      <<3072, 3072>>, <<3076, 3076>>, <<3132, 3132>>, <<3134, 3136>>, <<3142, 3144>>, <<3146, 3149>>,
      <<3157, 3158>>, <<3170, 3171>>, <<3201, 3201>>, <<3260, 3260>>, <<3263, 3263>>, <<3270, 3270>>,
      <<3276, 3277>>, <<3298, 3299>>, <<3328, 3329>>, <<3387, 3388>>, <<3393, 3396>>, <<3405, 3405>>,
      <<3426, 3427>>, <<3457, 3457>>, <<3530, 3530>>, <<3538, 3540>>, <<3542, 3542>>, <<3633, 3633>>,
      <<3636, 3642>>, <<3654, 3662>>, <<3761, 3761>>, <<3764, 3772>>, <<3782, 3782>>, <<3784, 3789>>,
      <<3864, 3865>>, <<3893, 3893>>, <<3895, 3895>>, <<3897, 3897>>, <<3953, 3966>>, <<3968, 3972>>,
      <<3974, 3975>>, <<3981, 3991>>, <<3993, 4028>>, <<4038, 4038>>, <<4141, 4144>>, <<4146, 4151>>,
      <<4153, 4154>>, <<4157, 4158>>, <<4184, 4185>>, <<4190, 4192>>, <<4209, 4212>>, <<4226, 4226>>,
      <<4229, 4230>>, <<4237, 4237>>, <<4253, 4253>>, <<4348, 4348>>, <<4957, 4959>>, <<5906, 5908>>,
      <<5938, 5939>>, <<5970, 5971>>, <<6002, 6003>>, <<6068, 6069>>, <<6071, 6077>>, <<6086, 6086>>,
      <<6089, 6099>>, <<6103, 6103>>, <<6109, 6109>>, <<6155, 6159>>, <<6211, 6211>>, <<6277, 6278>>,
      <<6313, 6313>>, <<6432, 6434>>, <<6439, 6440>>, <<6450, 6450>>, <<6457, 6459>>, <<6679, 6680>>,
      <<6683, 6683>>, <<6742, 6742>>, <<6744, 6750>>, <<6752, 6752>>, <<6754, 6754>>, <<6757, 6764>>,
      <<6771, 6780>>, <<6783, 6783>>, <<6823, 6823>>, <<6832, 6862>>, <<6912, 6915>>, <<6964, 6964>>,
      <<6966, 6970>>, <<6972, 6972>>, <<6978, 6978>>, <<7019, 7027>>, <<7040, 7041>>, <<7074, 7077>>,
      <<7080, 7081>>, <<7083, 7085>>, <<7142, 7142>>, <<7144, 7145>>, <<7149, 7149>>, <<7151, 7153>>,
      <<7212, 7219>>, <<7222, 7223>>, <<7288, 7293>>, <<7376, 7378>>, <<7380, 7392>>, <<7394, 7400>>,
      <<7405, 7405>>, <<7412, 7412>>, <<7416, 7417>>, <<7468, 7530>>, <<7544, 7544>>, <<7579, 7679>>,
      <<8125, 8125>>, <<8127, 8129>>, <<8141, 8143>>, <<8157, 8159>>, <<8173, 8175>>, <<8189, 8190>>,
      <<8203, 8207>>, <<8216, 8217>>, <<8228, 8228>>, <<8231, 8231>>, <<8234, 8238>>, <<8288, 8292>>,
      <<8294, 8303>>, <<8305, 8305>>, <<8319, 8319>>, <<8336, 8348>>, <<8400, 8432>>, <<11388, 11389>>,
      <<11503, 11505>>, <<11631, 11631>>, <<11647, 11647>>, <<11744, 11775>>, <<11823, 11823>>, <<12293, 12293>>,
      <<12330, 12333>>, <<12337, 12341>>, <<12347, 12347>>, <<12441, 12446>>, <<12540, 12542>>, <<40981, 40981>>,
      <<42232, 42237>>, <<42508, 42508>>, <<42607, 42610>>, <<42612, 42621>>, <<42623, 42623>>, <<42652, 42655>>,
      <<42736, 42737>>, <<42752, 42785>>, <<42864, 42864>>, <<42888, 42890>>, <<42994, 42996>>, <<43000, 43001>>,
      <<43010, 43010>>, <<43014, 43014>>, <<43019, 43019>>, <<43045, 43046>>, <<43052, 43052>>, <<43204, 43205>>,
      <<43232, 43249>>, <<43263, 43263>>, <<43302, 43309>>, <<43335, 43345>>, <<43392, 43394>>, <<43443, 43443>>,
      <<43446, 43449>>, <<43452, 43453>>, <<43471, 43471>>, <<43493, 43494>>, <<43561, 43566>>, <<43569, 43570>>,
      <<43573, 43574>>, <<43587, 43587>>, <<43596, 43596>>, <<43632, 43632>>, <<43644, 43644>>, <<43696, 43696>>,
      <<43698, 43700>>, <<43703, 43704>>, <<43710, 43711>>, <<43713, 43713>>, <<43741, 43741>>, <<43756, 43757>>,
      <<43763, 43764>>, <<43766, 43766>>, <<43867, 43871>>, <<43881, 43883>>, <<44005, 44005>>, <<44008, 44008>>,
      <<44013, 44013>>, <<64286, 64286>>, <<64434, 64450>>, <<65024, 65039>>, <<65043, 65043>>, <<65056, 65071>>,
      <<65106, 65106>>, <<65109, 65109>>, <<65279, 65279>>, <<65287, 65287>>, <<65294, 65294>>, <<65306, 65306>>,
      <<65342, 65342>>, <<65344, 65344>>, <<65392, 65392>>, <<65438, 65439>>, <<65507, 65507>>, <<65529, 65531>>,
      <<66045, 66045>>, <<66272, 66272>>, <<66422, 66426>>, <<67456, 67461>>, <<67463, 67504>>, <<67506, 67514>>,
      <<68097, 68099>>, <<68101, 68102>>, <<68108, 68111>>, <<68152, 68154>>, <<68159, 68159>>, <<68325, 68326>>,
      <<68900, 68903>>, <<69291, 69292>>, <<69446, 69456>>, <<69506, 69509>>, <<69633, 69633>>, <<69688, 69702>>,
      <<69744, 69744>>, <<69747, 69748>>, <<69759, 69761>>, <<69811, 69814>>, <<69817, 69818>>, <<69821, 69821>>,
      <<69826, 69826>>, <<69837, 69837>>, <<69888, 69890>>, <<69927, 69931>>, <<69933, 69940>>, <<70003, 70003>>,
      <<70016, 70017>>, <<70070, 70078>>, <<70089, 70092>>, <<70095, 70095>>, <<70191, 70193>>, <<70196, 70196>>,
      <<70198, 70199>>, <<70206, 70206>>, <<70367, 70367>>, <<70371, 70378>>, <<70400, 70401>>, <<70459, 70460>>,
      <<70464, 70464>>, <<70502, 70508>>, <<70512, 70516>>, <<70712, 70719>>, <<70722, 70724>>, <<70726, 70726>>,
      <<70750, 70750>>, <<70835, 70840>>, <<70842, 70842>>, <<70847, 70848>>, <<70850, 70851>>, <<71090, 71093>>,
      <<71100, 71101>>, <<71103, 71104>>, <<71132, 71133>>, <<71219, 71226>>, <<71229, 71229>>, <<71231, 71232>>,
      <<71339, 71339>>, <<71341, 71341>>, <<71344, 71349>>, <<71351, 71351>>, <<71453, 71455>>, <<71458, 71461>>,
      <<71463, 71467>>, <<71727, 71735>>, <<71737, 71738>>, <<71995, 71996>>, <<71998, 71998>>, <<72003, 72003>>,
      <<72148, 72151>>, <<72154, 72155>>, <<72160, 72160>>, <<72193, 72202>>, <<72243, 72248>>, <<72251, 72254>>,
      <<72263, 72263>>, <<72273, 72278>>, <<72281, 72283>>, <<72330, 72342>>, <<72344, 72345>>, <<72752, 72758>>,
      <<72760, 72765>>, <<72767, 72767>>, <<72850, 72871>>, <<72874, 72880>>, <<72882, 72883>>, <<72885, 72886>>,
      <<73009, 73014>>, <<73018, 73018>>, <<73020, 73021>>, <<73023, 73029>>, <<73031, 73031>>, <<73104, 73105>>,
      <<73109, 73109>>, <<73111, 73111>>, <<73459, 73460>>, <<78896, 78904>>, <<92912, 92916>>, <<92976, 92982>>,
      <<92992, 92995>>, <<94031, 94031>>, <<94095, 94111>>, <<94176, 94177>>, <<94179, 94180>>, <<110576, 110579>>,
      <<110581, 110587>>, <<110589, 110590>>, <<113821, 113822>>, <<113824, 113827>>, <<118528, 118573>>, <<118576, 118598>>,
      <<119143, 119145>>, <<119155, 119170>>, <<119173, 119179>>, <<119210, 119213>>, <<119362, 119364>>, <<121344, 121398>>,
      <<121403, 121452>>, <<121461, 121461>>, <<121476, 121476>>, <<121499, 121503>>, <<121505, 121519>>, <<122880, 122886>>,
      <<122888, 122904>>, <<122907, 122913>>, <<122915, 122916>>, <<122918, 122922>>, <<123184, 123197>>, <<123566, 123566>>,
      <<123628, 123631>>, <<125136, 125142>>, <<125252, 125259>>, <<127995, 127999>>, <<917505, 917505>>, <<917536, 917631>>,
      <<917760, 917999>> }

InRanges(c, R) == \E r \in R : r[1] <= c /\ c <= r[2]
is_cased(c) == InRanges(c, CasedRanges)
is_case_ignorable(c) == InRanges(c, CaseIgnorableRanges)

InRun(c, r) == r[1] <= c /\ c <= r[2] /\ (c - r[1]) % r[3] = 0

\* str.lower() on the one code point c, as a string: "A".."Z" are the only
\* code points below 192 that change, U+0130 becomes two code points.
lower_char(c) ==
    IF c >= 65 /\ c <= 90 THEN <<c + 32>>
    ELSE IF c < 192 THEN <<c>>
    ELSE IF c = 304 THEN <<105, 775>>
    ELSE IF \E r \in LowerRuns : InRun(c, r)
    THEN <<c + (CHOOSE r \in LowerRuns : InRun(c, r))[4]>>
    ELSE <<c>>

RECURSIVE skip_back(_, _)
skip_back(s, j) ==
    IF j >= 1 /\ is_case_ignorable(s[j]) THEN skip_back(s, j - 1) ELSE j

RECURSIVE skip_forward(_, _)
skip_forward(s, j) ==
    IF j <= Len(s) /\ is_case_ignorable(s[j]) THEN skip_forward(s, j + 1) ELSE j

\* The capital sigma (931) at s[i] ends a word: a cased code point comes
\* before it and none after it, case-ignorable code points apart.
final_sigma(s, i) ==
    LET j == skip_back(s, i - 1)
        k == skip_forward(s, i + 1)
    IN /\ j >= 1
       /\ is_cased(s[j])
       /\ k > Len(s) \/ ~is_cased(s[k])

RECURSIVE lower_from(_, _)
lower_from(s, i) ==
    IF i > Len(s) THEN <<>>
    ELSE (IF s[i] = 931
          THEN <<(IF final_sigma(s, i) THEN 962 ELSE 963)>>
          ELSE lower_char(s[i])) \o lower_from(s, i + 1)

\* str.lower()
lower(s) == lower_from(s, 1)

\* name_tag.text.strip().lower()
class_name_of(text) == lower(strip(text))

\* name_tag is not None and name_tag.text
has_name(obj) == ~IsNone(obj.name) /\ Val(obj.name) # <<>>

\* Python's order on str: code point by code point, a proper prefix first.
RECURSIVE str_lt(_, _)
str_lt(a, b) ==
    IF b = <<>> THEN FALSE
    ELSE IF a = <<>> THEN TRUE
    ELSE IF Head(a) < Head(b) THEN TRUE
    ELSE IF Head(a) > Head(b) THEN FALSE
    ELSE str_lt(Tail(a), Tail(b))

RECURSIVE insert_sorted(_, _)
insert_sorted(x, s) ==
    IF s = <<>> THEN <<x>>
    ELSE IF str_lt(Head(s), x) THEN <<Head(s)>> \o insert_sorted(x, Tail(s))
    ELSE <<x>> \o s

\* As sorted, were the list left in the order the set gave it.
sorted_Unsorted(l) == l

\* sorted(list)
RECURSIVE sorted(_)
sorted(l) ==
    IF l = <<>> THEN <<>>
    ELSE insert_sorted(Head(l), sorted(Tail(l)))

\* The orders in which list(a_set) may enumerate a set.
Lists(S) == {l \in [1..Cardinality(S) -> S] : \A i, j \in DOMAIN l : l[i] = l[j] => i = j}

\* {class_name: idx for idx, class_name in enumerate(classes)}, idx from 0
enumerate_dict(l) ==
    [c \in {l[i] : i \in DOMAIN l} |-> (CHOOSE i \in DOMAIN l : l[i] = c /\ \A j \in DOMAIN l : l[j] = c => j <= i) - 1]

\* ----------------------------------------------------------------- fractions

RECURSIVE gcd(_, _)
gcd(a, b) == IF b = 0 THEN a ELSE gcd(b, a % b)

Abs(n) == IF n < 0 THEN -n ELSE n

\* The quotient n / d, d # 0, in lowest terms with a positive denominator.
Frac(n, d) ==
    LET g == gcd(Abs(n), Abs(d))
        s == IF d < 0 THEN -1 ELSE 1
    IN [num |-> (s * n) \div g, den |-> (s * d) \div g]

\* ------------------------------------------------------- annotation files

\* An annotation file as ElementTree sees it.  parses = FALSE: ET.parse raises
\* ET.ParseError.  size.width, size.height: the integer text of size/width and
\* size/height, None when root.find returns None.  objects: the <object>
\* elements in document order.  name: None when obj.find('name') is None, else
\* its text (the empty sequence for a text of None or '').  bndbox: None when
\* obj.find('bndbox') is None, else the integer text of its four sub-elements,
\* each None when missing.
Size(w, h) == [width |-> w, height |-> h]
Object(name, bndbox) == [name |-> name, bndbox |-> bndbox]
Box(a, b, c, d) == Some([xmin |-> a, ymin |-> b, xmax |-> c, ymax |-> d])
File(size, objects) == [parses |-> TRUE, size |-> size, objects |-> objects]

\* A file that is not well formed: its text spells out a size and an object
\* named "u" (117), which no parser ever returns.
Unparsable ==
    [parses |-> FALSE,
     size |-> Size(<<4>>, <<2>>),
     objects |-> <<Object(<<<<117>>>>, <<[xmin |-> <<0>>, ymin |-> <<0>>, xmax |-> <<2>>, ymax |-> <<1>>]>>)>>]

declares_size(content) == ~IsNone(content.size.width) /\ ~IsNone(content.size.height)

box_complete(obj) ==
    /\ ~IsNone(obj.bndbox)
    /\ \A k \in {"xmin", "ymin", "xmax", "ymax"} : ~IsNone(Val(obj.bndbox)[k])

\* ------------------------------------------------- parse_xml_annotations

\* One iteration of the loop of lines 23-44: the labels of one file are added
\* to classes_set; ET.ParseError is caught and the file adds nothing.
parse_labels(content, cs) ==
    IF ~content.parses THEN cs
    ELSE cs \cup {class_name_of(Val(content.objects[i].name)) :
                    i \in {j \in DOMAIN content.objects : has_name(content.objects[j])}}

\* --------------------------------------------------- convert_xml_to_yolo

\* As yolo_line, were the centre not halved.
yolo_line_NoHalving(class_id, bndbox, img_width, img_height) ==
    LET xmin == Val(bndbox.xmin)
        ymin == Val(bndbox.ymin)
        xmax == Val(bndbox.xmax)
        ymax == Val(bndbox.ymax)
    IN <<class_id,
         Frac(xmin + xmax, img_width),
         Frac(ymin + ymax, img_height),
         Frac(xmax - xmin, img_width),
         Frac(ymax - ymin, img_height)>>

\* Lines 81-91: one output line, as (class_id, x_center, y_center, width, height).
yolo_line(class_id, bndbox, img_width, img_height) ==
    LET xmin == Val(bndbox.xmin)
        ymin == Val(bndbox.ymin)
        xmax == Val(bndbox.xmax)
        ymax == Val(bndbox.ymax)
    IN <<class_id,
         Frac(xmin + xmax, 2 * img_width),
         Frac(ymin + ymax, 2 * img_height),
         Frac(xmax - xmin, img_width),
         Frac(ymax - ymin, img_height)>>

\* As yolo_annotations, were an object without a usable label to end the loop
\* (break for continue).
RECURSIVE yolo_annotations_BreakOnSkip(_, _, _, _, _)
yolo_annotations_BreakOnSkip(objects, dict, img_width, img_height, acc) ==
    IF objects = <<>> THEN [raised |-> "none", lines |-> acc]
    ELSE LET obj == Head(objects)
             rest == Tail(objects)
         IN IF ~has_name(obj)
            THEN [raised |-> "none", lines |-> acc]
            ELSE IF class_name_of(Val(obj.name)) \notin DOMAIN dict
            THEN [raised |-> "none", lines |-> acc]
            ELSE IF ~box_complete(obj)
            THEN [raised |-> "AttributeError", lines |-> acc]
            ELSE IF img_width = 0 \/ img_height = 0
            THEN [raised |-> "ZeroDivisionError", lines |-> acc]
            ELSE yolo_annotations_BreakOnSkip(rest, dict, img_width, img_height,
                    Append(acc, yolo_line(dict[class_name_of(Val(obj.name))],
                                          Val(obj.bndbox), img_width, img_height)))

\* The loop of lines 68-91 over the objects left, yolo_annotations being acc.
\* raised names the exception that leaves the loop, "none" when it completes.
RECURSIVE yolo_annotations(_, _, _, _, _)
yolo_annotations(objects, dict, img_width, img_height, acc) ==
    IF objects = <<>> THEN [raised |-> "none", lines |-> acc]
    ELSE LET obj == Head(objects)
             rest == Tail(objects)
         IN IF ~has_name(obj)
            THEN yolo_annotations(rest, dict, img_width, img_height, acc)
            ELSE IF class_name_of(Val(obj.name)) \notin DOMAIN dict
            THEN yolo_annotations(rest, dict, img_width, img_height, acc)
            ELSE IF ~box_complete(obj)
            THEN [raised |-> "AttributeError", lines |-> acc]
            ELSE IF img_width = 0 \/ img_height = 0
            THEN [raised |-> "ZeroDivisionError", lines |-> acc]
            ELSE yolo_annotations(rest, dict, img_width, img_height,
                    Append(acc, yolo_line(dict[class_name_of(Val(obj.name))],
                                          Val(obj.bndbox), img_width, img_height)))

\* As convert_file, were ET.ParseError not caught.
convert_file_ParseErrorUncaught(content, dict) ==
    IF ~content.parses THEN [raised |-> "UncaughtParseError", lines |-> <<>>]
    ELSE IF ~declares_size(content) THEN [raised |-> "AttributeError", lines |-> <<>>]
    ELSE yolo_annotations(content.objects, dict,
                          Val(content.size.width), Val(content.size.height), <<>>)

\* One iteration of the loop of lines 58-100 up to the write of line 95.
convert_file(content, dict) ==
    IF ~content.parses THEN [raised |-> "ParseError", lines |-> <<>>]
    ELSE IF ~declares_size(content) THEN [raised |-> "AttributeError", lines |-> <<>>]
    ELSE yolo_annotations(content.objects, dict,
                          Val(content.size.width), Val(content.size.height), <<>>)

\* ------------------------------------------------------- create_data_yaml

\* As create_data_yaml, were only the subsets found on disk listed.
create_data_yaml_AsFound(names) ==
    [k \in {"path", "names"} \cup {d \in SubsetNames : subset_exists[d]} |->
        IF k = "path" THEN "base_dir" ELSE IF k = "names" THEN names ELSE k]

\* The dictionary of lines 110-116, which yaml.dump writes; path stands for
\* str(base_dir.resolve()).
create_data_yaml(names) ==
    [path |-> "base_dir", train |-> "train", val |-> "val", test |-> "test",
     names |-> names]

\* --------------------------------------------------------------- the disk

FilesIn(d) == {f \in DOMAIN xml : xml[f].dir = d}

\* The .txt file a previous run left behind.
StaleLine == <<-1, Frac(0, 1), Frac(0, 1), Frac(0, 1), Frac(0, 1)>>
Stale == Some(<<StaleLine>>)

DirIndex(d) == CHOOSE i \in DOMAIN subsets : subsets[i] = d

\* The state when main is entered: Counts files with contents drawn from
\* Contents, spread over the subset directories that exist and numbered
\* directory by directory, their .txt files being as Before (all absent, or
\* all left by a previous run).  Only the directories of Spare may exist
\* without a file in them.
InitWith(Contents, Counts, Before, Spare) ==
    /\ base_exists \in BOOLEAN
    /\ subset_exists \in [SubsetNames -> BOOLEAN]
    /\ base_exists = FALSE => \A d \in SubsetNames : ~subset_exists[d]
    /\ xml \in UNION {[1..n -> [dir : {d \in SubsetNames : subset_exists[d]},
                                content : Contents]] : n \in Counts}
    /\ \A f, g \in DOMAIN xml : f < g => DirIndex(xml[f].dir) <= DirIndex(xml[g].dir)
    /\ \A d \in SubsetNames : subset_exists[d] /\ FilesIn(d) = {} => d \in Spare
    /\ txt \in {[f \in DOMAIN xml |-> b] : b \in Before}
    /\ data_yaml = None
    /\ classes_set = {}
    /\ classes = <<>>
    /\ classes_dict = <<>>
    /\ pc = "main"
    /\ subset = 1
    /\ xml_files = {}
    /\ error = "none"

\* ------------------------------------------------------------------- main

\* Lines 178-183.
main_check_base ==
    /\ pc = "main"
    /\ pc' = IF base_exists THEN "scan" ELSE "abort"
    /\ UNCHANGED <<base_exists, subset_exists, xml, txt, data_yaml, classes_set,
                   classes, classes_dict, subset, xml_files, error>>

\* Lines 192-197: one turn of the first loop over subsets, up to the call.
main_scan_subset ==
    /\ pc = "scan"
    /\ subset <= Len(subsets)
    /\ IF subset_exists[subsets[subset]]
       THEN pc' = "parse" /\ xml_files' = FilesIn(subsets[subset]) /\ UNCHANGED subset
       ELSE subset' = subset + 1 /\ UNCHANGED <<pc, xml_files>>
    /\ UNCHANGED <<base_exists, subset_exists, xml, txt, data_yaml, classes_set,
                   classes, classes_dict, error>>

\* Lines 23-44: parse_xml_annotations visits one more file, in any order.
parse_xml_file ==
    /\ pc = "parse"
    /\ \E f \in xml_files :
        /\ classes_set' = parse_labels(xml[f].content, classes_set)
        /\ xml_files' = xml_files \ {f}
    /\ UNCHANGED <<base_exists, subset_exists, xml, txt, data_yaml,
                   classes, classes_dict, pc, subset, error>>

\* Line 46: parse_xml_annotations returns to the loop of line 192.
parse_xml_return ==
    /\ pc = "parse"
    /\ xml_files = {}
    /\ pc' = "scan"
    /\ subset' = subset + 1
    /\ UNCHANGED <<base_exists, subset_exists, xml, txt, data_yaml, classes_set,
                   classes, classes_dict, xml_files, error>>

\* As main_build_classes, without the return of lines 205-207.
main_build_classes_NoEmptyCheck ==
    /\ pc = "scan"
    /\ subset > Len(subsets)
    /\ \E l \in Lists(classes_set) :
        /\ classes' = sorted(l)
        /\ classes_dict' = enumerate_dict(classes')
    /\ pc' = "encode"
    /\ subset' = 1
    /\ UNCHANGED <<base_exists, subset_exists, xml, txt, data_yaml, classes_set,
                   xml_files, error>>

\* Lines 199-207: the vocabulary is sorted and indexed; main returns when empty.
main_build_classes ==
    /\ pc = "scan"
    /\ subset > Len(subsets)
    /\ \E l \in Lists(classes_set) :
        /\ classes' = sorted(l)
        /\ classes_dict' = enumerate_dict(classes')
    /\ IF DOMAIN classes_dict' = {}
       THEN pc' = "abort" /\ UNCHANGED subset
       ELSE pc' = "encode" /\ subset' = 1
    /\ UNCHANGED <<base_exists, subset_exists, xml, txt, data_yaml, classes_set,
                   xml_files, error>>

\* Lines 210-214: one turn of the second loop over subsets, up to the call.
main_convert_subset ==
    /\ pc = "encode"
    /\ subset <= Len(subsets)
    /\ IF subset_exists[subsets[subset]]
       THEN pc' = "convert" /\ xml_files' = FilesIn(subsets[subset]) /\ UNCHANGED subset
       ELSE subset' = subset + 1 /\ UNCHANGED <<pc, xml_files>>
    /\ UNCHANGED <<base_exists, subset_exists, xml, txt, data_yaml, classes_set,
                   classes, classes_dict, error>>

\* Lines 58-100: convert_xml_to_yolo visits one more file, in any order.  Only
\* ET.ParseError is caught; any other exception leaves main.
convert_xml_file ==
    /\ pc = "convert"
    /\ \E f \in xml_files :
        LET r == convert_file(xml[f].content, classes_dict)
        IN IF r.raised = "none"
           THEN /\ txt' = [txt EXCEPT ![f] = Some(r.lines)]
                /\ xml_files' = xml_files \ {f}
                /\ UNCHANGED <<pc, error>>
           ELSE IF r.raised = "ParseError"
           THEN /\ xml_files' = xml_files \ {f}
                /\ UNCHANGED <<txt, pc, error>>
           ELSE /\ pc' = "crash"
                /\ error' = r.raised
                /\ xml_files' = {f}
                /\ UNCHANGED txt
    /\ UNCHANGED <<base_exists, subset_exists, xml, data_yaml, classes_set,
                   classes, classes_dict, subset>>

\* convert_xml_to_yolo returns to the loop of line 210.
convert_xml_return ==
    /\ pc = "convert"
    /\ xml_files = {}
    /\ pc' = "encode"
    /\ subset' = subset + 1
    /\ UNCHANGED <<base_exists, subset_exists, xml, txt, data_yaml, classes_set,
                   classes, classes_dict, xml_files, error>>

\* Lines 216-219.
main_create_data_yaml ==
    /\ pc = "encode"
    /\ subset > Len(subsets)
    /\ data_yaml' = Some(create_data_yaml(classes))
    /\ pc' = "train"
    /\ UNCHANGED <<base_exists, subset_exists, xml, txt, classes_set,
                   classes, classes_dict, subset, xml_files, error>>

\* As main_train, were training also started after an early return.
main_train_FromAbort ==
    /\ pc \in {"train", "abort"}
    /\ pc' = "done"
    /\ UNCHANGED <<base_exists, subset_exists, xml, txt, data_yaml, classes_set,
                   classes, classes_dict, subset, xml_files, error>>

\* Lines 222-235: YOLO(model_path).train(data='data.yaml', ...).
main_train ==
    /\ pc = "train"
    /\ pc' = "done"
    /\ UNCHANGED <<base_exists, subset_exists, xml, txt, data_yaml, classes_set,
                   classes, classes_dict, subset, xml_files, error>>

Next ==
    \/ main_check_base
    \/ main_scan_subset
    \/ parse_xml_file
    \/ parse_xml_return
    \/ main_build_classes
    \/ main_convert_subset
    \/ convert_xml_file
    \/ convert_xml_return
    \/ main_create_data_yaml
    \/ main_train

\* ------------------------------------------------------------ the inputs

\* The sequences over S of length at most n.
SeqsUpTo(S, n) == UNION {[1..k -> S] : k \in 0..n}

GoodSize == Size(Some(4), Some(2))
BoxA == Box(Some(0), Some(0), Some(2), Some(1))
BoxB == Box(Some(1), Some(1), Some(4), Some(2))

\* Spec: files that differ in structure.  65 is "A", 97 "a", 98 "b", 32 " ".
PipelineFiles ==
    { Unparsable,
      File(Size(None, None), <<Object(Some(<<97>>), BoxA)>>),
      File(Size(Some(4), None), <<Object(None, BoxA)>>),
      File(GoodSize, <<Object(Some(<<97>>), None)>>),
      File(GoodSize, <<Object(Some(<<98>>), Box(Some(0), Some(0), None, Some(1)))>>),
      File(GoodSize, <<>>),
      File(GoodSize, <<Object(None, BoxA), Object(Some(<<98>>), BoxB)>>),
      File(GoodSize, <<Object(Some(<<65>>), BoxA)>>),
      File(GoodSize, <<Object(Some(<<32>>), BoxA)>>) }

Init == InitWith(PipelineFiles, 0..MaxFiles, {None, Stale}, SubsetNames)

Spec == Init /\ [][Next]_vars

\* SpecLabels: two files, each with an object named "0" (48) and an object
\* whose <name> is missing or holds any text over " ", "A", "a" of length
\* at most MaxLen or one of the texts beyond ASCII, or with neither size nor
\* objects.
Alphabet == {32, 65, 97}

\* Capital alpha and sigma, small alpha and sigma, a no-break space before
\* a capital E acute, and a capital I with dot above.
NonAsciiTexts == {<<913, 931>>, <<945, 963>>, <<160, 201>>, <<304>>}

Texts == SeqsUpTo(Alphabet, MaxLen) \cup NonAsciiTexts

LabelFiles ==
    {File(GoodSize, <<Object(Some(<<48>>), BoxB), Object(n, BoxA)>>) :
        n \in {None} \cup {Some(t) : t \in Texts}}
        \cup {File(Size(None, None), <<>>)}

InitLabels == InitWith(LabelFiles, 2..2, {None}, {})

SpecLabels == InitLabels /\ [][Next]_vars

\* The state when convert_xml_to_yolo(data_dir, classes_dict) is entered for
\* the first subset with one file in it, for any classes_dict over Labels.
InitConvertWith(Contents, Labels) ==
    /\ base_exists = TRUE
    /\ subset_exists = [d \in SubsetNames |-> TRUE]
    /\ xml \in [1..1 -> [dir : {subsets[1]}, content : Contents]]
    /\ txt \in {[f \in DOMAIN xml |-> None], [f \in DOMAIN xml |-> Stale]}
    /\ data_yaml = None
    /\ classes_set \in SUBSET Labels
    /\ classes \in {sorted(l) : l \in Lists(classes_set)}
    /\ classes_dict = enumerate_dict(classes)
    /\ pc = "convert"
    /\ subset = 1
    /\ xml_files = DOMAIN xml
    /\ error = "none"

NextConvert ==
    \/ convert_xml_file
    \/ convert_xml_return

\* SpecConvert: one file of at most MaxObjs objects; names missing, empty,
\* "A", "b " or "c", boxes missing or present; vocabularies over "a", "b".
ConvertObjects ==
    {Object(n, b) : n \in {None, Some(<<>>), Some(<<65>>), Some(<<98, 32>>), Some(<<99>>)},
                    b \in {None, BoxA, BoxB}}

ConvertFiles ==
    {Unparsable} \cup
    {File(s, os) : s \in {Size(None, None), GoodSize, Size(Some(0), Some(2))},
                   os \in SeqsUpTo(ConvertObjects, MaxObjs)}

InitConvert == InitConvertWith(ConvertFiles, {<<97>>, <<98>>})

SpecConvert == InitConvert /\ [][NextConvert]_vars

\* SpecGeometry: one file with one object "a", image sizes and coordinates in
\* 0..MaxCoord and the values of the worked example (100 x 200, box 10 20 50 80).
Dims == (0..MaxCoord) \cup {100, 200}
Coords == (0..MaxCoord) \cup {10, 20, 50, 80}

GeometryFiles ==
    {File(Size(Some(w), Some(h)), <<Object(Some(<<97>>), Box(Some(a), Some(b), Some(c), Some(d)))>>) :
        w \in Dims, h \in Dims, a \in Coords, b \in Coords, c \in Coords, d \in Coords}

InitGeometry == InitConvertWith(GeometryFiles, {<<97>>})

SpecGeometry == InitGeometry /\ [][NextConvert]_vars

\* ------------------------------------------------------ what the claims say

Parsed == {f \in DOMAIN xml : xml[f].content.parses}
Objects(f) == xml[f].content.objects
Named(f) == {i \in DOMAIN Objects(f) : has_name(Objects(f)[i])}
Text(f, i) == Val(Objects(f)[i].name)

\* The .txt file of f has been written by this run.
Written(f) == txt[f] # None /\ txt[f] # Stale

\* The labels of the files a parser can read.
LabelsOnDisk == UNION {{class_name_of(Text(f, i)) : i \in Named(f)} : f \in Parsed}

\* Lines 199-201 have run.
Built == pc \in {"encode", "convert", "crash", "train", "done"} \/ (pc = "abort" /\ base_exists)

\* convert_xml_to_yolo has been through file f.
Converted(f) ==
    \/ pc = "convert" /\ xml[f].dir = subsets[subset] /\ f \notin xml_files
    \/ pc \in {"encode", "convert", "crash"} /\ DirIndex(xml[f].dir) < subset
    \/ pc \in {"train", "done"}

\* C1: in the encode phase a file without size/width or size/height, or with a
\* labelled object without its bounding box elements, is skipped and the run
\* goes on to the other files and to the manifest: no run is ended by the
\* AttributeError such a file raises.
C1_MissingFieldIsolated == ~(pc = "crash" /\ error = "AttributeError")

\* C2: when no label is found in any file, main returns before converting:
\* the program never enters the encode phase, no .txt file is written or
\* modified, no manifest is written and training is never started.
C2_EmptyVocabularyAborts ==
    (base_exists /\ LabelsOnDisk = {}) =>
        /\ pc \in {"main", "scan", "parse", "abort"}
        /\ \A f \in DOMAIN xml : ~Written(f)
        /\ data_yaml = None

C2_Witness ==
    /\ pc = "abort"
    /\ base_exists
    /\ LabelsOnDisk = {}
    /\ \E f \in Parsed : Objects(f) # <<>> /\ txt[f] = Stale

\* C3: whatever the order in which files and labels are met, classes_dict maps
\* the distinct labels one to one onto 0..N-1, each label to the number of
\* labels that sort before it, and names in data.yaml holds each label at the
\* position of its index.
C3_VocabularyIsRankOrder ==
    Built =>
        /\ DOMAIN classes_dict = LabelsOnDisk
        /\ \A l \in LabelsOnDisk :
              classes_dict[l] = Cardinality({m \in LabelsOnDisk : str_lt(m, l)})
        /\ {classes_dict[l] : l \in LabelsOnDisk} = 0..(Cardinality(LabelsOnDisk) - 1)
        /\ data_yaml # None =>
              /\ Len(Val(data_yaml).names) = Cardinality(LabelsOnDisk)
              /\ \A l \in LabelsOnDisk : Val(data_yaml).names[classes_dict[l] + 1] = l

\* Three labels, the one that sorts last met in the first file.
C3_Witness ==
    /\ pc = "done"
    /\ Cardinality(LabelsOnDisk) = 3
    /\ 1 \in Parsed
    /\ \E i \in Named(1) : classes_dict[class_name_of(Text(1, i))] = 2

\* C4: a file that raises ET.ParseError is skipped in both phases: it adds no
\* label, its .txt file is neither written nor modified, it never ends the
\* run, and every file that parses is converted when convert_xml_to_yolo has
\* been through it, whatever files are beside it.
C4_ParseErrorSkipped ==
    /\ \A f \in DOMAIN xml \ Parsed : ~Written(f)
    /\ Built => DOMAIN classes_dict = LabelsOnDisk
    /\ \A l \in classes_set : l # <<117>>
    /\ pc = "crash" => xml_files \subseteq Parsed
    /\ \A f \in Parsed : Converted(f) => Written(f)

C4_Witness ==
    /\ pc = "done"
    /\ \E f \in DOMAIN xml \ Parsed : \E g \in Parsed :
          /\ xml[f].dir = xml[g].dir
          /\ txt[f] = Stale
          /\ Written(g) /\ Val(txt[g]) # <<>>

\* Two texts that differ only in letter case or in leading/trailing white space.
AllSpace(s, i, j) == \A k \in i..j : s[k] \in Whitespace
SameLetter(c, d) == c = d \/ lower_char(c) = <<d>> \/ lower_char(d) = <<c>>
EquivRaw(a, b) ==
    \E i1 \in 1..(Len(a) + 1), i2 \in 1..(Len(b) + 1) :
        \E n \in 0..Len(a) :
            /\ i1 + n - 1 <= Len(a)
            /\ i2 + n - 1 <= Len(b)
            /\ AllSpace(a, 1, i1 - 1) /\ AllSpace(a, i1 + n, Len(a))
            /\ AllSpace(b, 1, i2 - 1) /\ AllSpace(b, i2 + n, Len(b))
            /\ \A k \in 0..(n - 1) : SameLetter(a[i1 + k], b[i2 + k])

\* The line of the i-th object of f, every named object being in the vocabulary.
LineOf(f, i) == Val(txt[f])[Cardinality({j \in Named(f) : j <= i})]

\* C5: two raw labels that differ only in letter case or in surrounding white
\* space make a single vocabulary entry, and the objects that carry them are
\* written with the same class index.
C5_VariantsShareIndex ==
    Built =>
        \A f \in Parsed, g \in Parsed : \A i \in Named(f), j \in Named(g) :
            EquivRaw(Text(f, i), Text(g, j)) =>
                /\ \E l \in DOMAIN classes_dict :
                      {class_name_of(Text(f, i)), class_name_of(Text(g, j))} = {l}
                /\ (Written(f) /\ Written(g)) =>
                      /\ Len(Val(txt[f])) = Cardinality(Named(f))
                      /\ Len(Val(txt[g])) = Cardinality(Named(g))
                      /\ LineOf(f, i)[1] = LineOf(g, j)[1]

\* C6: with the dataset root present, an absent subset directory is left out
\* of both loops and never ends the run: main returns early only for want of
\* labels, and a run that reaches the manifest has converted the files of the
\* directories that exist and lists train, val and test in data.yaml.
C6_AbsentSubsetsSkipped ==
    /\ pc \in {"parse", "convert", "crash"} => subset_exists[subsets[subset]]
    /\ (pc = "abort" /\ base_exists) => LabelsOnDisk = {}
    /\ pc \in {"train", "done"} =>
          /\ data_yaml # None
          /\ SubsetNames \subseteq DOMAIN Val(data_yaml)
          /\ \A d \in SubsetNames : Val(data_yaml)[d] = d
          /\ \A f \in Parsed : Written(f)

C6_Witness ==
    /\ pc = "done"
    /\ ~subset_exists["train"]
    /\ ~subset_exists["test"]
    /\ \E f \in Parsed : Written(f) /\ Val(txt[f]) # <<>>
    /\ Val(data_yaml).train = "train" /\ Val(data_yaml).test = "test"

\* The place of pc in the order INIT, BUILD_VOCABULARY, ENCODE, WRITE_MANIFEST, DONE.
Rank(p) ==
    CASE p = "main" -> 0
      [] p \in {"scan", "parse"} -> 1
      [] p \in {"encode", "convert"} -> 2
      [] p = "train" -> 3
      [] p = "done" -> 4
      [] p \in {"abort", "crash"} -> 5

C7_Order ==
    /\ (\E f \in DOMAIN xml : Written(f)) => pc \in {"encode", "convert", "crash", "train", "done"}
    /\ data_yaml # None <=> pc \in {"train", "done"}
    /\ data_yaml # None => \A f \in Parsed : Written(f)
    /\ pc = "done" => base_exists /\ DOMAIN classes_dict # {}

C7_Step ==
    /\ pc \notin {"done", "abort", "crash"}
    /\ Rank(pc') >= Rank(pc)
    /\ pc' = "abort" => pc \in {"main", "scan"}
    /\ pc' = "crash" => pc = "convert"
    /\ pc' = "train" => pc = "encode"
    /\ pc' = "done" => pc = "train"
    /\ pc' \in {"encode", "convert"} /\ pc \in {"scan", "parse"} =>
          pc = "scan" /\ subset > Len(subsets)
    /\ Rank(pc) >= 2 => UNCHANGED <<classes_set, classes, classes_dict>>

\* C7: main moves forward only, from the scan of all subsets to the encoding,
\* to the manifest, to training: no output is written before the vocabulary
\* is built, the vocabulary does not change once encoding has begun, the
\* manifest is written only when every directory has been encoded, and training
\* starts only after the manifest is written, never after an early return.
C7_LinearPipeline == [](C7_Order) /\ [][C7_Step]_vars

C7_Witness ==
    /\ pc = "done"
    /\ Cardinality(DOMAIN classes_dict) = 2
    /\ \E f, g \in Parsed : xml[f].dir # xml[g].dir /\ Val(txt[f]) # <<>> /\ Val(txt[g]) # <<>>

\* An object is retained when it has a label whose normalized form is in the
\* vocabulary.
Retained(o) == has_name(o) /\ class_name_of(Val(o.name)) \in DOMAIN classes_dict

ExpectedLines(f) ==
    LET kept == SelectSeq(Objects(f), Retained)
    IN [k \in 1..Len(kept) |->
          yolo_line(classes_dict[class_name_of(Val(kept[k].name))], Val(kept[k].bndbox),
                    Val(xml[f].content.size.width), Val(xml[f].content.size.height))]

\* Lines 81-89 raise for a retained object of f: its box is incomplete or the
\* image size is zero.
Raises(f) ==
    \E i \in DOMAIN Objects(f) :
        /\ Retained(Objects(f)[i])
        /\ \/ ~box_complete(Objects(f)[i])
           \/ Val(xml[f].content.size.width) = 0
           \/ Val(xml[f].content.size.height) = 0

\* C8: the .txt file written for a file that parses and declares its size
\* holds one line per retained object, in document order; an object without
\* a label or with a label outside the vocabulary is left out alone, and never
\* keeps the file from being written (a file with no retained object gets an
\* empty .txt file in place of any previous one).
C8_OneLinePerRetainedObject ==
    \A f \in Parsed :
        declares_size(xml[f].content) =>
            /\ Converted(f) => ~Raises(f) /\ txt[f] = Some(ExpectedLines(f))
            /\ (pc = "crash" /\ f \in xml_files) => Raises(f)

\* An object with an unknown label, then a retained one, over a previous file.
C8_Witness ==
    \E f \in Parsed :
        /\ Converted(f)
        /\ Len(Objects(f)) = 2
        /\ has_name(Objects(f)[1]) /\ ~Retained(Objects(f)[1])
        /\ Retained(Objects(f)[2])
        /\ Len(Val(txt[f])) = 1
        /\ classes_dict[class_name_of(Val(Objects(f)[2].name))] = 1

\* C9: every entry of the vocabulary is a non-empty string, lowercased and
\* without surrounding white space.
C9_LabelsNonEmptyNormalized ==
    \A l \in classes_set \cup DOMAIN classes_dict :
        /\ l # <<>>
        /\ \A k \in DOMAIN l : lower_char(l[k]) = <<l[k]>>
        /\ l # <<>> => (l[1] \notin Whitespace /\ l[Len(l)] \notin Whitespace)

InUnit(q) == q.den > 0 /\ 0 <= q.num /\ q.num <= q.den
IsQuotient(q, n, d) == q.num * d = n * q.den

\* C10: for an image of positive size and a box with 0 <= xmin < xmax <=
\* image_width and 0 <= ymin < ymax <= image_height, the four values written
\* are (xmin + xmax) / 2 / image_width, (ymin + ymax) / 2 / image_height,
\* (xmax - xmin) / image_width and (ymax - ymin) / image_height, each within
\* [0, 1]; 100 x 200 with the box 10 20 50 80 gives 0.30, 0.25, 0.40, 0.30.
C10_ValuesInUnitInterval ==
    \A f \in Parsed :
        (Converted(f) /\ declares_size(xml[f].content)) =>
            \A i \in DOMAIN Objects(f) :
                LET o == Objects(f)[i]
                    w == Val(xml[f].content.size.width)
                    h == Val(xml[f].content.size.height)
                    b == Val(o.bndbox)
                    line == Val(txt[f])[Cardinality({j \in 1..i : Retained(Objects(f)[j])})]
                IN (/\ Retained(o)
                    /\ w > 0 /\ h > 0
                    /\ 0 <= Val(b.xmin) /\ Val(b.xmin) < Val(b.xmax) /\ Val(b.xmax) <= w
                    /\ 0 <= Val(b.ymin) /\ Val(b.ymin) < Val(b.ymax) /\ Val(b.ymax) <= h) =>
                        /\ IsQuotient(line[2], Val(b.xmin) + Val(b.xmax), 2 * w)
                        /\ IsQuotient(line[3], Val(b.ymin) + Val(b.ymax), 2 * h)
                        /\ IsQuotient(line[4], Val(b.xmax) - Val(b.xmin), w)
                        /\ IsQuotient(line[5], Val(b.ymax) - Val(b.ymin), h)
                        /\ \A k \in 2..5 : InUnit(line[k])
                        /\ (w = 100 /\ h = 200 /\ b = Val(Box(Some(10), Some(20), Some(50), Some(80)))) =>
                              line = <<classes_dict[<<97>>], [num |-> 3, den |-> 10], [num |-> 1, den |-> 4],
                                       [num |-> 2, den |-> 5], [num |-> 3, den |-> 10]>>

\* The worked example, converted.
C10_Witness ==
    \E f \in Parsed :
        /\ Converted(f)
        /\ xml[f].content.size = Size(Some(100), Some(200))
        /\ Objects(f)[1].bndbox = Box(Some(10), Some(20), Some(50), Some(80))
        /\ txt[f] = Some(<<(<<0, [num |-> 3, den |-> 10], [num |-> 1, den |-> 4],
                             [num |-> 2, den |-> 5], [num |-> 3, den |-> 10]>>)>>)

====
